---- MODULE Spec2Model ----
(***************************************************************************)
(* A model of the Beneath a Steel Sky extractor: the archive directory     *)
(* reader, the resource reader (src/src/main.rs) and the RNC1 decoder with *)
(* its bit queue and Huffman tables (src/src/rnc_decompress.rs).           *)
(***************************************************************************)
EXTENDS Integers, Sequences, FiniteSets, TLC

VARIABLES
    d,          \* the Decoder: reader, bit queue, output, tables, loop counters
    call,       \* the last BitQueue / read_table call made on d, with its arguments
    file,       \* the directory file handed to read_dinner_table
    data,       \* the data file handed to read_entry
    directory,  \* what read_dinner_table returned
    buf,        \* what read_entry returned, with the entry it was called for
    resource    \* what read_resource returned

vars == <<d, call, file, data, directory, buf, resource>>

(***************************************************************************)
(* Integer widths and bit operations                                       *)
(***************************************************************************)
U16 == 65536
TableSize == 16

Min(a, b) == IF a < b THEN a ELSE b

\* F applied to the value of v: a `let` of the code, evaluated once where it stands
Bind(v, F(_)) == CHOOSE result \in {F(x) : x \in {v}} : TRUE

\* F applied to the values of v and w
Bind2(v, w, F(_, _)) == CHOOSE result \in {F(x, y) : x \in {v}, y \in {w}} : TRUE

RECURSIVE BitOrLoop(_, _)
BitOrLoop(a, b) ==
    IF a = 0 THEN b
    ELSE IF b = 0 THEN a
    ELSE (IF a % 2 = 1 \/ b % 2 = 1 THEN 1 ELSE 0) + 2 * BitOrLoop(a \div 2, b \div 2)

\* a | b
BitOr(a, b) == Bind2(a, b, BitOrLoop)

RECURSIVE BitAndLoop(_, _)
BitAndLoop(a, b) ==
    IF a = 0 \/ b = 0 THEN 0
    ELSE (IF a % 2 = 1 /\ b % 2 = 1 THEN 1 ELSE 0) + 2 * BitAndLoop(a \div 2, b \div 2)

\* a & b
BitAnd(a, b) == Bind2(a, b, BitAndLoop)

\* v << n on a u32. The model checker's integers end at 2^31 - 1: the bits shifted out
\* are dropped before the multiplication, and a result with bit 31 set is an
\* evaluation error rather than a wrong value.
Shl32Of(v, n) == IF n <= 1 THEN v * (2 ^ n) ELSE (v % (2 ^ (32 - n))) * (2 ^ n)
Shl32(v, n) == Bind2(v, n, Shl32Of)
\* (v << n) as u16
Shl16(v, n) == IF n >= 16 THEN 0 ELSE (v % (2 ^ (16 - n))) * (2 ^ n)
Shr(v, n) == v \div (2 ^ n)

(***************************************************************************)
(* The byte reader: a Cursor over a byte vector. A read past the end       *)
(* fails; where a failed multi-byte read leaves the cursor depends on the  *)
(* library build, which the reader carries as seek_end.                    *)
(***************************************************************************)
Cursor(bytes, seek_end) == [data |-> bytes, pos |-> 0, seek_end |-> seek_end]

Remaining(r) ==
    IF r.pos >= Len(r.data) THEN <<>> ELSE SubSeq(r.data, r.pos + 1, Len(r.data))

ReadExact(r, n) ==
    IF Len(r.data) - r.pos >= n
    THEN [ok |-> TRUE, bytes |-> SubSeq(r.data, r.pos + 1, r.pos + n),
          r |-> [r EXCEPT !.pos = @ + n]]
    ELSE [ok |-> FALSE, bytes |-> <<>>,
          r |-> IF r.seek_end THEN [r EXCEPT !.pos = Len(r.data)] ELSE r]

ReadToEnd(r) == [bytes |-> Remaining(r), r |-> [r EXCEPT !.pos = Len(r.data)]]

RECURSIVE BeValue(_)
BeValue(bytes) ==
    IF bytes = <<>> THEN 0
    ELSE bytes[Len(bytes)] + 256 * BeValue(SubSeq(bytes, 1, Len(bytes) - 1))

RECURSIVE LeValue(_)
LeValue(bytes) ==
    IF bytes = <<>> THEN 0 ELSE bytes[1] + 256 * LeValue(Tail(bytes))

ReadBe(r, n) ==
    Bind(ReadExact(r, n), LAMBDA x : [ok |-> x.ok, v |-> BeValue(x.bytes), r |-> x.r])
ReadLe(r, n) ==
    Bind(ReadExact(r, n), LAMBDA x : [ok |-> x.ok, v |-> LeValue(x.bytes), r |-> x.r])
ReadU8(r) == ReadLe(r, 1)

(***************************************************************************)
(* BitQueue                                                                *)
(***************************************************************************)
BitQueueNew == [bit_queue |-> 0, bits_in_queue |-> 0]

\* a refill that counts only the bits of the bytes the source still had
RefillAvailable(bq, r) ==
    Bind(ReadU8(r), LAMBDA a :
    Bind(ReadU8(a.r), LAMBDA b :
    LET b0 == IF a.ok THEN a.v ELSE 0
        b1 == IF b.ok THEN b.v ELSE 0
        new_bits == BitOr(Shl32(b1, 8), b0)
        got == (IF a.ok THEN 8 ELSE 0) + (IF b.ok THEN 8 ELSE 0)
    IN  [bq |-> [bit_queue |-> BitOr(bq.bit_queue, Shl32(new_bits, bq.bits_in_queue)),
                 bits_in_queue |-> bq.bits_in_queue + got],
         r |-> b.r]))

\* refill: two u8 reads, each 0 when the source is exhausted; always 16 more bits
Refill(bq, r) ==
    Bind(ReadU8(r), LAMBDA a :
    Bind(ReadU8(a.r), LAMBDA b :
    LET b0 == IF a.ok THEN a.v ELSE 0
        b1 == IF b.ok THEN b.v ELSE 0
        new_bits == BitOr(Shl32(b1, 8), b0)
    IN  [bq |-> [bit_queue |-> BitOr(bq.bit_queue, Shl32(new_bits, bq.bits_in_queue)),
                 bits_in_queue |-> bq.bits_in_queue + 16],
         r |-> b.r]))

\* peek: the low 16 bits of the queue with the next two source bytes above it
Peek(bq, r) ==
    Bind(Remaining(r), LAMBDA rest :
    LET p0 == IF Len(rest) >= 1 THEN rest[1] ELSE 0
        p1 == IF Len(rest) >= 2 THEN rest[2] ELSE 0
        p == BitOr(Shl32(p1, 8), p0)
    IN  BitOr(Shl16(p, bq.bits_in_queue), bq.bit_queue % U16))

ReadBits(bq, r, n) ==
    Bind(IF n > bq.bits_in_queue THEN Refill(bq, r) ELSE [bq |-> bq, r |-> r], LAMBDA f :
    LET mask == ((2 ^ n) - 1) % U16
        v == BitAnd(f.bq.bit_queue % U16, mask)
    IN  [v |-> v,
         bq |-> [bit_queue |-> Shr(f.bq.bit_queue, n),
                 bits_in_queue |-> f.bq.bits_in_queue - n],
         r |-> f.r])

\* Decoder::read_bits, on the decoder record
DReadBits(s, n) ==
    Bind(ReadBits(s.bit_queue, s.r, n), LAMBDA x :
         [v |-> x.v, s |-> [s EXCEPT !.bit_queue = x.bq, !.r = x.r]])

(***************************************************************************)
(* Huffman tables                                                          *)
(***************************************************************************)
NodeDefault == [l3 |-> 0, bit_depth |-> 0]
TableNew == [i \in 1..TableSize |-> NodeDefault]

RECURSIVE InverseLoop(_, _, _)
InverseLoop(v, r, k) ==
    IF k = 0 THEN r
    ELSE Bind2(Shr(v, 1), BitOr(Shl32(r, 1), v % 2),
               LAMBDA v1, r1 : InverseLoop(v1, r1, k - 1))

\* the low count bits of v as they stand
NoInverse(v, count) == v % (2 ^ count)

InverseBits(v, count) == InverseLoop(v, 0, count)

RECURSIVE ReadDepths(_, _, _, _)
ReadDepths(s, table, i, leaf_nodes) ==
    IF i >= leaf_nodes THEN [s |-> s, table |-> table]
    ELSE Bind(DReadBits(s, 4), LAMBDA x :
         Bind([table EXCEPT ![i + 1].bit_depth = x.v], LAMBDA t :
              ReadDepths(x.s, t, i + 1, leaf_nodes)))

\* val and div are kept in units of 2^16: div runs from 0x8000_0000 down to
\* 0x1_0000 and val is a sum of divs, so both are multiples of 2^16, val / div
\* is the same quotient, and wrapping at 2^32 is wrapping at 2^16 units.
RECURSIVE AssignNodes(_, _, _, _, _, _)
AssignNodes(table, leaf_nodes, bits_count, i, val, div) ==
    IF i >= leaf_nodes THEN [table |-> table, val |-> val]
    ELSE Bind(IF table[i + 1].bit_depth = bits_count
              THEN [table |-> [table EXCEPT
                                 ![i + 1].l3 = InverseBits(val \div div, bits_count)],
                    val |-> (val + div) % U16]
              ELSE [table |-> table, val |-> val],
              LAMBDA x : AssignNodes(x.table, leaf_nodes, bits_count, i + 1, x.val, div))

RECURSIVE AssignLoop(_, _, _, _, _)
AssignLoop(table, leaf_nodes, bits_count, val, div) ==
    IF bits_count > 16 THEN table
    ELSE Bind2(AssignNodes(table, leaf_nodes, bits_count, 0, val, div), Shr(div, 1),
               LAMBDA x, half :
                   AssignLoop(x.table, leaf_nodes, bits_count + 1, x.val, half))

AssignCodes(table, leaf_nodes) == AssignLoop(table, leaf_nodes, 1, 0, 32768)

ReadTable(s, table) ==
    Bind(DReadBits(s, 5), LAMBDA x :
    Bind(Min(x.v, 16), LAMBDA leaf_nodes :
         IF leaf_nodes = 0
         THEN [s |-> x.s, table |-> table, leaf_nodes |-> 0]
         ELSE Bind(ReadDepths(x.s, table, 0, leaf_nodes), LAMBDA y :
                   [s |-> y.s, table |-> AssignCodes(y.table, leaf_nodes),
                    leaf_nodes |-> leaf_nodes])))

(***************************************************************************)
(* input_value: the scan over the table slots, from slot i on. Slot 16 is  *)
(* past the table: indexing it panics.                                     *)
(***************************************************************************)
RECURSIVE InputValueFrom(_, _, _)
InputValueFrom(s, table, i) ==
    IF i >= TableSize THEN [s |-> s, panic |-> TRUE, v |-> 0]
    ELSE Bind(table[i + 1], LAMBDA node :
         IF node.bit_depth = 0 THEN InputValueFrom(s, table, i + 1)
         ELSE LET peek == Peek(s.bit_queue, s.r)
                  mask == (2 ^ node.bit_depth) - 1
              IN  IF node.l3 = BitAnd(peek, mask)
                  THEN Bind(DReadBits(s, node.bit_depth), LAMBDA a :
                       IF i < 2 THEN [s |-> a.s, panic |-> FALSE, v |-> i]
                       ELSE Bind(DReadBits(a.s, i - 1), LAMBDA b :
                            [s |-> b.s, panic |-> FALSE, v |-> BitOr(b.v, 2 ^ (i - 1))]))
                  ELSE InputValueFrom(s, table, i + 1))

InputValue(s, table) == InputValueFrom(s, table, 0)

(***************************************************************************)
(* The RNC1 header and the decoder's steps. pc is the decoder's position   *)
(* in decode: Header, PerBlock (the head of the block loop), PerSubchunk   *)
(* (the head of the subchunk loop and the literal run), Match (the two     *)
(* values of a back-reference), Copy (its byte loop), and the ends Done,   *)
(* Err (decode returned an error: err is Io or SignatureError) and Panic   *)
(* (decode panicked on an index out of bounds: err is TableIndex for a     *)
(* table slot, OutputIndex for an output byte).                            *)
(***************************************************************************)
HeaderDefault ==
    [signature |-> <<>>, unpacked_len |-> 0, packed_len |-> 0, crc_unpacked |-> 0,
     crc_packed |-> 0, overlaps_size |-> 0, blocks |-> 0]

\* the fields in the order Header::read reads them, as (name, width) pairs
HeaderFields ==
    <<[name |-> "unpacked_len", n |-> 4], [name |-> "packed_len", n |-> 4],
      [name |-> "crc_unpacked", n |-> 2], [name |-> "crc_packed", n |-> 2],
      [name |-> "overlaps_size", n |-> 1], [name |-> "blocks", n |-> 1]>>

RECURSIVE HeaderReadFields(_, _, _)
HeaderReadFields(r, header, k) ==
    IF k > Len(HeaderFields) THEN [ok |-> TRUE, header |-> header, r |-> r]
    ELSE Bind(ReadBe(r, HeaderFields[k].n), LAMBDA x :
         IF ~x.ok THEN [ok |-> FALSE, header |-> HeaderDefault, r |-> x.r]
         ELSE Bind([header EXCEPT ![HeaderFields[k].name] = x.v], LAMBDA h :
                   HeaderReadFields(x.r, h, k + 1)))

HeaderRead(r) ==
    Bind(ReadExact(r, 4), LAMBDA a :
         IF ~a.ok THEN [ok |-> FALSE, header |-> HeaderDefault, r |-> a.r]
         ELSE HeaderReadFields(a.r, [HeaderDefault EXCEPT !.signature = a.bytes], 1))

SignatureIsValid(header) == header.signature = <<82, 78, 67, 1>>

Terminal == {"Done", "Err", "Panic"}

DecoderNew(r) ==
    [r |-> r, bit_queue |-> BitQueueNew, output |-> <<>>, header |-> HeaderDefault,
     raw_table |-> TableNew, len_table |-> TableNew, pos_table |-> TableNew,
     leaf_nodes |-> <<0, 0, 0>>, block |-> 0, subchunks |-> 0, subchunk |-> 0,
     match_offset |-> 0, match_count |-> 0, pc |-> "Header", err |-> "none"]

DecodeHeader(s) ==
    Bind(HeaderRead(s.r), LAMBDA h :
    IF ~h.ok THEN [s EXCEPT !.r = h.r, !.pc = "Err", !.err = "Io"]
    ELSE IF ~SignatureIsValid(h.header)
         THEN [s EXCEPT !.r = h.r, !.header = h.header, !.pc = "Err",
                        !.err = "SignatureError"]
    ELSE Bind([s EXCEPT !.r = h.r, !.header = h.header, !.output = <<>>], LAMBDA t :
         Bind(DReadBits(t, 2), LAMBDA x :
              [x.s EXCEPT !.raw_table = TableNew, !.len_table = TableNew,
                          !.pos_table = TableNew, !.block = 0, !.pc = "PerBlock"])))

\* the head of `for _ in 0..header.blocks`: the three tables and the subchunk count
DecodeBlock(s) ==
    IF s.block >= s.header.blocks THEN [s EXCEPT !.pc = "Done"]
    ELSE Bind(ReadTable(s, s.raw_table), LAMBDA a :
         Bind(ReadTable(a.s, s.len_table), LAMBDA b :
         Bind(ReadTable(b.s, s.pos_table), LAMBDA c :
         Bind(DReadBits(c.s, 16), LAMBDA x :
              [x.s EXCEPT !.raw_table = a.table, !.len_table = b.table,
                          !.pos_table = c.table,
                          !.leaf_nodes = <<a.leaf_nodes, b.leaf_nodes, c.leaf_nodes>>,
                          !.subchunks = x.v, !.subchunk = 0, !.pc = "PerSubchunk"]))))

\* the literal run: input_length bytes straight from the reader, one at a time
RECURSIVE CopyLiteral(_, _)
CopyLiteral(s, input_length) ==
    IF input_length = 0 THEN [ok |-> TRUE, s |-> s]
    ELSE Bind(ReadExact(s.r, 1), LAMBDA x :
         IF ~x.ok THEN [ok |-> FALSE, s |-> [s EXCEPT !.r = x.r]]
         ELSE Bind([s EXCEPT !.r = x.r, !.output = Append(@, x.bytes[1])], LAMBDA t :
                   CopyLiteral(t, input_length - 1)))

\* back to the head of the block loop with the block counter left where it is
SameBlock(s) == [s EXCEPT !.pc = "PerBlock"]

\* the step of `for _ in 0..header.blocks`
NextBlock(s) == [s EXCEPT !.block = @ + 1, !.pc = "PerBlock"]

\* the step of `for subchunk in 0..subchunks`
NextSubchunk(s) == [s EXCEPT !.subchunk = @ + 1, !.pc = "PerSubchunk"]

DecodeLiteral(s) ==
    IF s.subchunk >= s.subchunks THEN NextBlock(s)
    ELSE Bind(InputValue(s, s.raw_table), LAMBDA iv :
         IF iv.panic THEN [iv.s EXCEPT !.pc = "Panic", !.err = "TableIndex"]
         ELSE Bind(CopyLiteral(iv.s, iv.v), LAMBDA lit :
              IF ~lit.ok THEN [lit.s EXCEPT !.pc = "Err", !.err = "Io"]
              ELSE IF s.subchunk < s.subchunks - 1 THEN [lit.s EXCEPT !.pc = "Match"]
              ELSE NextSubchunk(lit.s)))

DecodeMatch(s) ==
    Bind(InputValue(s, s.len_table), LAMBDA a :
    IF a.panic THEN [a.s EXCEPT !.pc = "Panic", !.err = "TableIndex"]
    ELSE Bind(InputValue(a.s, s.pos_table), LAMBDA b :
         IF b.panic THEN [b.s EXCEPT !.pc = "Panic", !.err = "TableIndex"]
         ELSE [b.s EXCEPT !.match_offset = a.v + 1, !.match_count = b.v + 2,
                          !.pc = "Copy"]))

\* the back-reference: match_count bytes, each read from the growing output
RECURSIVE CopyLoop(_, _, _, _, _)
CopyLoop(output, len, match_offset, j, match_count) ==
    IF j >= match_count THEN output
    ELSE Bind(Append(output, output[len - match_offset + j + 1]), LAMBDA t :
              CopyLoop(t, len, match_offset, j + 1, match_count))

\* the same loop reading a snapshot of the output taken before the copy
CopySnapshot(output, match_offset, match_count) ==
    output \o [j \in 1..match_count |->
                 output[Min(Len(output) - match_offset + j, Len(output))]]

CopyMatch(output, match_offset, match_count) ==
    CopyLoop(output, Len(output), match_offset, 0, match_count)

\* len - match_offset + j is out of range at j = 0 when match_offset > len
DecodeCopy(s) ==
    IF s.match_offset > Len(s.output)
    THEN [s EXCEPT !.pc = "Panic", !.err = "OutputIndex"]
    ELSE NextSubchunk([s EXCEPT !.output =
                           CopyMatch(s.output, s.match_offset, s.match_count)])

DecodeStep(s) ==
    CASE s.pc = "Header" -> DecodeHeader(s)
      [] s.pc = "PerBlock" -> DecodeBlock(s)
      [] s.pc = "PerSubchunk" -> DecodeLiteral(s)
      [] s.pc = "Match" -> DecodeMatch(s)
      [] s.pc = "Copy" -> DecodeCopy(s)
      [] OTHER -> s

RECURSIVE RunDecode(_)
RunDecode(s) ==
    IF s.pc \in Terminal THEN s
    ELSE Bind(DecodeStep(s), LAMBDA t : RunDecode(t))

\* decompress_rnc1 on a reader
DecompressRnc1(r) == RunDecode(DecoderNew(r))

(***************************************************************************)
(* The archive: directory, entries and resources (main.rs)                 *)
(***************************************************************************)
\* one directory entry: number u16, offset u24, size u24 with its two flag bits
RECURSIVE ReadEntries(_, _, _, _)
ReadEntries(r, entries, k, entry_count) ==
    IF k >= entry_count THEN [state |-> "Ok", entries |-> entries]
    ELSE Bind(ReadLe(r, 2), LAMBDA number :
         IF ~number.ok THEN [state |-> "Err", entries |-> <<>>]
         ELSE Bind(ReadLe(number.r, 3), LAMBDA offset :
         IF ~offset.ok THEN [state |-> "Err", entries |-> <<>>]
         ELSE Bind(ReadLe(offset.r, 3), LAMBDA size :
         IF ~size.ok THEN [state |-> "Err", entries |-> <<>>]
         ELSE Bind([number |-> number.v, offset |-> offset.v,
                    size |-> BitAnd(size.v, 4194303),
                    has_file_header |-> (Shr(size.v, 23) = 0),
                    uses_file_header |-> (Shr(size.v, 22) = 0)], LAMBDA entry :
              ReadEntries(size.r, Append(entries, entry), k + 1, entry_count)))))

ReadDinnerTable(bytes) ==
    Bind(ReadLe(Cursor(bytes, FALSE), 4), LAMBDA entry_count :
         IF ~entry_count.ok THEN [state |-> "Err", entries |-> <<>>]
         ELSE ReadEntries(entry_count.r, <<>>, 0, entry_count.v))

\* seek to the offset, then take(size).read_to_end: what the file still has
ReadEntry(entry, bytes) ==
    IF entry.offset >= Len(bytes) THEN <<>>
    ELSE SubSeq(bytes, entry.offset + 1, Min(entry.offset + entry.size, Len(bytes)))

\* the eleven 16-bit fields of the resource header, in the order they are read
ResourceFields ==
    <<"flags", "x", "y", "width", "height", "sp_size", "tot_size", "n_sprites",
      "offset_x", "offset_y", "compressed_size">>

SignedFields == {"offset_x", "offset_y"}

ResourceHeaderDefault == [f \in {ResourceFields[k] : k \in 1..11} |-> 0]

AsI16(v) == IF v >= 32768 THEN v - U16 ELSE v

RECURSIVE ResourceHeaderRead(_, _, _)
ResourceHeaderRead(r, header, k) ==
    IF k > Len(ResourceFields) THEN [ok |-> TRUE, header |-> header, r |-> r]
    ELSE Bind(ReadLe(r, 2), LAMBDA x :
         IF ~x.ok THEN [ok |-> FALSE, header |-> header, r |-> x.r]
         ELSE Bind([header EXCEPT ![ResourceFields[k]] =
                       IF ResourceFields[k] \in SignedFields THEN AsI16(x.v) ELSE x.v],
                   LAMBDA h : ResourceHeaderRead(x.r, h, k + 1)))

IsCompressed(header) == BitAnd(header.flags, 128) # 0

\* read_resource: Ok, Err (an error returned) or Panic (decompress_rnc1 panicked).
\* The decoder borrows the cursor r: what it has read is gone when the fallback
\* reads r to its end.
ReadResource(entry, bytes, seek_end) ==
    IF ~entry.has_file_header
    THEN [state |-> "Ok", header |-> <<>>, data |-> bytes]
    ELSE Bind(ResourceHeaderRead(Cursor(bytes, seek_end), ResourceHeaderDefault, 1),
              LAMBDA h :
         IF ~h.ok THEN [state |-> "Err", header |-> <<>>, data |-> <<>>]
         ELSE IF IsCompressed(h.header)
              THEN Bind(DecompressRnc1(h.r), LAMBDA decoder :
                   IF decoder.pc = "Panic"
                   THEN [state |-> "Panic", header |-> <<>>, data |-> <<>>]
                   ELSE [state |-> "Ok", header |-> <<h.header>>,
                         data |-> IF decoder.pc = "Done" THEN decoder.output
                                  ELSE ReadToEnd(decoder.r).bytes])
         ELSE [state |-> "Ok", header |-> <<h.header>>, data |-> ReadToEnd(h.r).bytes])

(***************************************************************************)
(* Input streams of the decoder                                            *)
(***************************************************************************)
MaxPayload == 3
MaxBlocks == 2

RECURSIVE BeBytes(_, _)
BeBytes(v, n) == IF n = 0 THEN <<>> ELSE Append(BeBytes(v \div 256, n - 1), v % 256)

RECURSIVE LeBytes(_, _)
LeBytes(v, n) == IF n = 0 THEN <<>> ELSE <<v % 256>> \o LeBytes(v \div 256, n - 1)

RECURSIVE SeqsUpTo(_, _)
SeqsUpTo(S, n) ==
    IF n = 0 THEN {<<>>}
    ELSE LET shorter == SeqsUpTo(S, n - 1)
         IN  shorter \cup {Append(q, x) : q \in shorter, x \in S}

Prefixes(q) == {SubSeq(q, 1, k) : k \in 0..Len(q)}

RncSignature == <<82, 78, 67, 1>>

RncHeader(signature, unpacked_len, blocks) ==
    signature \o BeBytes(unpacked_len, 4) \o BeBytes(0, 4) \o BeBytes(0, 2)
              \o BeBytes(0, 2) \o <<0, blocks>>

\* "abc", then a back-reference of distance 2 and count 5; one block, two subchunks
StreamOverlap ==
    RncHeader(RncSignature, 8, 1)
        \o <<140, 128, 16, 16, 3, 32, 4, 0, 38, 0, 97, 98, 99>>

\* two blocks: "ab" and a back-reference (2, 4); then a block whose three
\* tables declare 1, 0 and 0 leaves and whose single subchunk is empty
StreamTwoBlocks ==
    RncHeader(RncSignature, 6, 2)
        \o <<140, 128, 16, 16, 3, 32, 4, 0, 130, 16, 97, 98, 0, 4, 0, 0>>

PayloadBytes == {0, 4, 132, 255}

Streams ==
    {RncHeader(RncSignature, 0, b) \o p :
        b \in 0..MaxBlocks, p \in SeqsUpTo(PayloadBytes, MaxPayload)}
    \cup {RncHeader(<<88, 88, 88, 88>>, 0, 1) \o <<4, 0>>}
    \cup Prefixes(StreamOverlap) \cup Prefixes(StreamTwoBlocks)

(***************************************************************************)
(* The decoder running on one stream                                       *)
(***************************************************************************)
NoCall == [op |-> "none", n |-> 0, v |-> 0]
NoDirectory == [state |-> "none", entries |-> <<>>]
NoBuf == [state |-> "none", index |-> 0, bytes |-> <<>>]
NoResource == [state |-> "none", header |-> <<>>, data |-> <<>>]

ArchiveIdle ==
    /\ file = <<>> /\ data = <<>> /\ directory = NoDirectory
    /\ buf = NoBuf /\ resource = NoResource

Init ==
    /\ d \in {DecoderNew(Cursor(q, e)) : q \in Streams, e \in BOOLEAN}
    /\ call = NoCall
    /\ ArchiveIdle

Header ==
    /\ d.pc = "Header"
    /\ d' = DecodeHeader(d)
    /\ UNCHANGED <<call, file, data, directory, buf, resource>>

PerBlock ==
    /\ d.pc = "PerBlock"
    /\ d' = DecodeBlock(d)
    /\ UNCHANGED <<call, file, data, directory, buf, resource>>

PerSubchunk ==
    /\ d.pc = "PerSubchunk"
    /\ d' = DecodeLiteral(d)
    /\ UNCHANGED <<call, file, data, directory, buf, resource>>

Match ==
    /\ d.pc = "Match"
    /\ d' = DecodeMatch(d)
    /\ UNCHANGED <<call, file, data, directory, buf, resource>>

Copy ==
    /\ d.pc = "Copy"
    /\ d' = DecodeCopy(d)
    /\ UNCHANGED <<call, file, data, directory, buf, resource>>

Next == Header \/ PerBlock \/ PerSubchunk \/ Match \/ Copy

Spec == Init /\ [][Next]_vars

\* decode is straight-line code: a step that can be taken is taken
LiveSpec == Init /\ [][Next]_vars /\ WF_vars(Next)

(***************************************************************************)
(* Properties of the decoder                                               *)
(***************************************************************************)
Tables(s) == <<s.raw_table, s.len_table, s.pos_table>>

\* C2: input_value ends by returning a value or an error: when no used slot of
\* the table matches the peeked bits (an empty table included) it does not
\* index the table out of range and does not panic.
InputValueNeverPanics == ~(d.pc = "Panic" /\ d.err = "TableIndex")

\* C5: inside every block, each of the three tables holds only what read_table
\* read for this block: every slot at or past the block's leaf count is unused,
\* so a leaf count of 0 leaves the table empty.
TablesRebuiltPerBlock ==
    d.pc \in {"PerSubchunk", "Match", "Copy"} =>
        \A k \in 1..3 : \A i \in 1..TableSize :
            i > d.leaf_nodes[k] => Tables(d)[k][i].bit_depth = 0

\* C10: a decode started in the Header state ends, also on a stream that ends
\* early: it reaches Done, and then it has gone through header.blocks blocks
\* and every subchunk of the last one, or it ends with a failure (an error or
\* a panic).
DecodeTerminates ==
    /\ <>(d.pc \in Terminal)
    /\ [](d.pc = "Done" =>
            /\ d.block = d.header.blocks
            /\ d.block > 0 => d.subchunk = d.subchunks)

\* a stream that ends right after its header and declares one block: every
\* bit of the block came from the zero padding
DoneOnZeroBits ==
    /\ d.pc = "Done"
    /\ d.r.data = RncHeader(RncSignature, 0, 1)
    /\ d.block = 1
    /\ d.bit_queue.bits_in_queue > 0

\* C11: at every match the decoded distance is at most the length of the
\* output produced so far, so the copy reads only indexes inside the output
\* and never ends in an index out of range.
MatchWithinOutput ==
    /\ d.pc = "Copy" => d.match_offset <= Len(d.output)
    /\ ~(d.pc = "Panic" /\ d.err = "OutputIndex")

(***************************************************************************)
(* The bit queue under any sequence of peek and read_bits calls            *)
(***************************************************************************)
MaxSource == 3
SourceBytes == {0, 165, 255}

BitsInit ==
    /\ d \in {DecoderNew(Cursor(q, FALSE)) : q \in SeqsUpTo(SourceBytes, MaxSource)}
    /\ call = NoCall
    /\ ArchiveIdle

\* BitQueue::peek: it assigns nothing
PeekCall ==
    /\ call' = [op |-> "peek", n |-> 0, v |-> Peek(d.bit_queue, d.r)]
    /\ UNCHANGED <<d, file, data, directory, buf, resource>>

\* BitQueue::read_bits(n), n <= 16 by its assert
ReadBitsCall ==
    \E n \in 0..16 : \E x \in {DReadBits(d, n)} :
        /\ d' = x.s
        /\ call' = [op |-> "read_bits", n |-> n, v |-> x.v]
        /\ UNCHANGED <<file, data, directory, buf, resource>>

BitsNext == PeekCall \/ ReadBitsCall

SpecBits == BitsInit /\ [][BitsNext]_vars

BitQueueStep ==
    /\ call'.op = "peek" => d'.bit_queue = d.bit_queue
    /\ call'.op = "read_bits" =>
        LET before == d.bit_queue.bits_in_queue
            after == d'.bit_queue.bits_in_queue
            refill == call'.n > before
        IN  /\ after = before + (IF refill THEN 16 ELSE 0) - call'.n
            /\ after >= 0
            /\ d'.r.pos = IF refill THEN Min(d.r.pos + 2, Len(d.r.data)) ELSE d.r.pos

\* C6: peek leaves the buffered value and the bit count unchanged; read_bits(n)
\* refills (reads the source) exactly when n exceeds the count before the call,
\* a refill adds exactly 16 to the count whether or not the source has bytes
\* left, and the call lowers the count by n: count_after = count_before +
\* (16 if n > count_before else 0) - n, never negative.
BitQueueCounts == [][BitQueueStep]_vars

\* read_bits(1) on a one-byte source: the refill found one byte of the two
RefillPastEnd ==
    /\ call.op = "read_bits" /\ call.n = 1
    /\ Len(d.r.data) = 1 /\ d.r.pos = 1
    /\ d.bit_queue.bits_in_queue = 15

(***************************************************************************)
(* read_table on every small assignment of code lengths. The stream is a   *)
(* header declaring one block, the two bits decode reads first, and the    *)
(* raw table's leaf count and code lengths, packed as the bit queue        *)
(* unpacks them: least significant bit first. The other two tables and the *)
(* subchunk count come from the zero padding.                              *)
(***************************************************************************)
MaxLeaves == 4
MaxDepth == 3

\* the n low bits of v, least significant first
BitsOf(v, n) == [i \in 1..n |-> (v \div (2 ^ (i - 1))) % 2]

RECURSIVE FieldBits(_)
FieldBits(fields) ==
    IF fields = <<>> THEN <<>>
    ELSE BitsOf(fields[1].v, fields[1].n) \o FieldBits(Tail(fields))

BitAt(bits, i) == IF i <= Len(bits) THEN bits[i] ELSE 0

PackBits(fields) ==
    LET bits == FieldBits(fields)
        ByteAt(k) == BitAt(bits, 8 * k - 7) + 2 * BitAt(bits, 8 * k - 6)
                     + 4 * BitAt(bits, 8 * k - 5) + 8 * BitAt(bits, 8 * k - 4)
                     + 16 * BitAt(bits, 8 * k - 3) + 32 * BitAt(bits, 8 * k - 2)
                     + 64 * BitAt(bits, 8 * k - 1) + 128 * BitAt(bits, 8 * k)
    IN  [k \in 1..((Len(bits) + 7) \div 8) |-> ByteAt(k)]

RECURSIVE AllSeqs(_, _)
AllSeqs(S, n) ==
    IF n = 0 THEN {<<>>} ELSE {Append(q, x) : q \in AllSeqs(S, n - 1), x \in S}

DepthLists == UNION {AllSeqs(0..MaxDepth, n) : n \in 1..MaxLeaves}

TableStream(depths) ==
    RncHeader(RncSignature, 0, 1)
        \o PackBits(<<[v |-> 0, n |-> 2], [v |-> Len(depths), n |-> 5]>>
                    \o [i \in 1..Len(depths) |-> [v |-> depths[i], n |-> 4]])

TableInit ==
    /\ d \in {DecoderNew(Cursor(TableStream(q), FALSE)) : q \in DepthLists}
    /\ call = NoCall
    /\ ArchiveIdle

TableNext == Header \/ PerBlock \/ PerSubchunk

SpecTable == TableInit /\ [][TableNext]_vars

\* the code lengths of the first n slots
DepthsOf(table, n) == [i \in 1..n |-> table[i].bit_depth]

RECURSIVE KraftSum(_, _)
KraftSum(table, n) ==
    IF n = 0 THEN 0
    ELSE (IF table[n].bit_depth > 0 THEN 2 ^ (16 - table[n].bit_depth) ELSE 0)
         + KraftSum(table, n - 1)

\* the n low bits of v in the opposite order
RECURSIVE RevBits(_, _)
RevBits(v, n) == IF n = 0 THEN 0 ELSE (v % 2) * (2 ^ (n - 1)) + RevBits(v \div 2, n - 1)

\* the code of slot i before reversal, read back from the stored value
CodeOf(table, i) == RevBits(table[i].l3, table[i].bit_depth)

\* slot j gets its code before slot i: a shorter length, or the same length
\* and a smaller index
Before(table, j, i) ==
    /\ table[j].bit_depth > 0
    /\ \/ table[j].bit_depth < table[i].bit_depth
       \/ table[j].bit_depth = table[i].bit_depth /\ j < i

\* the next available code at slot i's length: the codes handed out before
\* it, each counted at slot i's length
RECURSIVE NextCode(_, _, _)
NextCode(table, i, j) ==
    IF j = 0 THEN 0
    ELSE (IF Before(table, j, i)
          THEN 2 ^ (table[i].bit_depth - table[j].bit_depth) ELSE 0)
         + NextCode(table, i, j - 1)

CanonicalTable(table, n) ==
    LET used == {i \in 1..n : table[i].bit_depth > 0}
        len(i) == table[i].bit_depth
    IN  /\ \A i \in used :
            /\ table[i].l3 < 2 ^ len(i)
            /\ table[i].l3 = RevBits(NextCode(table, i, n), len(i))
        /\ \A i, j \in used :
            /\ (i # j /\ len(i) <= len(j)) =>
                   CodeOf(table, j) \div (2 ^ (len(j) - len(i))) # CodeOf(table, i)
            /\ (i < j /\ len(i) = len(j)) => CodeOf(table, i) < CodeOf(table, j)
            /\ len(i) < len(j) =>
                   CodeOf(table, i) * (2 ^ (16 - len(i)))
                       < CodeOf(table, j) * (2 ^ (16 - len(j)))
        /\ DepthsOf(table, n) = <<2, 1, 3, 3>> =>
               [i \in 1..n |-> CodeOf(table, i)] = <<2, 0, 6, 7>>

\* C8: for code lengths that are not over-subscribed, the codes of a table
\* after read_table are pairwise prefix-free and canonically ordered before
\* reversal (increasing with the symbol index within one length, a shorter code
\* smaller than every longer one when left-aligned), each is the next
\* available code at its length, and the stored value is its reversal over
\* exactly bit_depth bits; lengths 2,1,3,3 give the codes 10, 0, 110, 111.
CanonicalCodes ==
    d.pc = "PerSubchunk" =>
        \A k \in 1..3 :
            KraftSum(Tables(d)[k], d.leaf_nodes[k]) <= U16 =>
                CanonicalTable(Tables(d)[k], d.leaf_nodes[k])

\* the raw table read from the lengths 2,1,3,3
TableOfExample ==
    /\ d.pc = "PerSubchunk"
    /\ d.leaf_nodes[1] = 4
    /\ DepthsOf(d.raw_table, 4) = <<2, 1, 3, 3>>
    /\ [i \in 1..4 |-> d.raw_table[i].l3] = <<1, 0, 3, 7>>

(***************************************************************************)
(* The back-reference copy on every small output. The decoder stands at    *)
(* the copy loop with a match decoded; the loop reads the output, the      *)
(* match offset and the match count and nothing else of the decoder.       *)
(***************************************************************************)
MaxOutput == 3
MaxCount == 5
OutputBytes == {97, 98, 99}

AtCopy(output, match_offset, match_count) ==
    [DecoderNew(Cursor(RncHeader(RncSignature, 0, 1), FALSE)) EXCEPT
        !.header = [HeaderDefault EXCEPT !.signature = RncSignature, !.blocks = 1],
        !.r.pos = Len(RncHeader(RncSignature, 0, 1)),
        !.output = output, !.subchunks = 2,
        !.match_offset = match_offset, !.match_count = match_count, !.pc = "Copy"]

\* input_value is never negative: an offset is at least 1, a count at least 2
CopyInit ==
    /\ d \in {AtCopy(q, m, c) : q \in SeqsUpTo(OutputBytes, MaxOutput) \ {<<>>},
                                m \in 1..(MaxOutput + 1), c \in 2..MaxCount}
    /\ call = NoCall
    /\ ArchiveIdle

CopyNext == Copy

SpecCopy == CopyInit /\ [][CopyNext]_vars

CopyStep ==
    (d.pc = "Copy" /\ d.match_offset <= Len(d.output)) =>
        LET len == Len(d.output)
            new == d'.output
        IN  /\ d'.pc = "PerSubchunk"
            /\ Len(new) = len + d.match_count
            /\ SubSeq(new, 1, len) = d.output
            /\ \A j \in 0..(d.match_count - 1) :
                   new[len + j + 1] = new[len + j + 1 - d.match_offset]
            /\ (d.output = <<97, 98, 99>> /\ d.match_offset = 2 /\ d.match_count = 5)
                   => new = <<97, 98, 99, 98, 99, 98, 99, 98>>

\* C9: a back-reference with distance 1 <= d <= len and count c turns an
\* output of length len into one of length len + c whose first len bytes are
\* unchanged and where new[len + j] = new[len + j - d] for every j in 0..c,
\* also when d < c; a,b,c with d = 2 and c = 5 gets b,c,b,c,b appended.
CopyIsByteByByte == [][CopyStep]_vars

\* after the copy of distance 2 and count 5 onto a,b,c
CopiedOverlap ==
    /\ d.pc = "PerSubchunk"
    /\ d.match_offset = 2 /\ d.match_count = 5
    /\ d.output = <<97, 98, 99, 98, 99, 98, 99, 98>>

(***************************************************************************)
(* The extractor on one archive: the directory is read, then every entry   *)
(* in directory order is read from the data file and turned into a         *)
(* resource. A resource that fails ends the run.                           *)
(***************************************************************************)
MaxEntries == 2

ResourceHeaderBytes(flags) == LeBytes(flags, 2) \o [i \in 1..20 |-> 0]

DataFiles ==
    { ResourceHeaderBytes(128) \o RncHeader(<<88, 88, 88, 88>>, 0, 1) \o <<4, 0>>,
      ResourceHeaderBytes(128) \o StreamOverlap,
      ResourceHeaderBytes(128) \o RncHeader(RncSignature, 0, 1) \o <<0, 0, 132>>,
      ResourceHeaderBytes(128) \o <<82, 78>>,
      ResourceHeaderBytes(128) \o <<82, 78, 67, 1, 0, 0, 0>>,
      ResourceHeaderBytes(0) \o <<1, 2, 3>> }

EntryBytes(number, offset, raw_size) ==
    LeBytes(number, 2) \o LeBytes(offset, 3) \o LeBytes(raw_size, 3)

EntryChoices ==
    {EntryBytes(7, offset, flags * 4194304 + size) :
        offset \in {0, 2}, flags \in 0..3, size \in {4, 42, 60}}

RECURSIVE Flatten(_)
Flatten(qs) == IF qs = <<>> THEN <<>> ELSE qs[1] \o Flatten(Tail(qs))

DirectoryBytes(entries) == LeBytes(Len(entries), 4) \o Flatten(entries)

Directories ==
    {DirectoryBytes(es) : es \in SeqsUpTo(EntryChoices, MaxEntries)}
    \cup Prefixes(DirectoryBytes(<<EntryBytes(7, 0, 42)>>))

ArchiveInit ==
    /\ d = DecoderNew(Cursor(<<>>, FALSE))
    /\ call = NoCall
    /\ file \in Directories
    /\ data \in DataFiles
    /\ directory = NoDirectory
    /\ buf = NoBuf
    /\ resource = NoResource

\* main: read_dinner_table on the directory file
GetDirectory ==
    /\ directory.state = "none"
    /\ directory' = ReadDinnerTable(file)
    /\ UNCHANGED <<d, call, file, data, buf, resource>>

\* main: the head of `for entry in &directory` and its read_entry
GetEntry ==
    /\ directory.state = "Ok"
    /\ buf.index < Len(directory.entries)
    /\ buf.state = "none" \/ resource.state = "Ok"
    /\ buf' = [state |-> "Ok", index |-> buf.index + 1,
               bytes |-> ReadEntry(directory.entries[buf.index + 1], data)]
    /\ resource' = NoResource
    /\ UNCHANGED <<d, call, file, data, directory>>

\* main: read_resource on the entry just read
GetResource ==
    /\ buf.state = "Ok"
    /\ resource.state = "none"
    /\ \E seek_end \in BOOLEAN :
           resource' = ReadResource(directory.entries[buf.index], buf.bytes, seek_end)
    /\ UNCHANGED <<d, call, file, data, directory, buf>>

ArchiveNext == GetDirectory \/ GetEntry \/ GetResource

SpecArchive == ArchiveInit /\ [][ArchiveNext]_vars

\* the entry of the current loop iteration
Entry == directory.entries[buf.index]

\* C1: for an entry with a file header whose flags have bit 7 set, when
\* decompress_rnc1 fails on the bytes after the 22-byte header, read_resource
\* returns Ok and its data is every byte from offset 22 to the end of the slice.
FallbackIsRawRemainder ==
    ( /\ resource.state # "none"
      /\ Entry.has_file_header
      /\ Len(buf.bytes) >= 22
      /\ (buf.bytes[1] \div 128) % 2 = 1
      /\ DecompressRnc1(Cursor(SubSeq(buf.bytes, 23, Len(buf.bytes)), FALSE)).pc = "Err" )
    => /\ resource.state = "Ok"
       /\ resource.data = SubSeq(buf.bytes, 23, Len(buf.bytes))

\* the k-th 8-byte entry of the directory file, from its byte `from` to `to`
RawField(k, from, to) == LeValue(SubSeq(file, 4 + 8 * (k - 1) + from, 4 + 8 * (k - 1) + to))

\* C3: a directory read to its end has as many entries as its count field
\* says, in file order; each has size = s mod 2^22 for its raw 24-bit size
\* field s, has_file_header exactly when bit 23 of s is clear and
\* uses_file_header exactly when bit 22 of s is clear.
DirectoryMatchesFile ==
    directory.state = "Ok" =>
        /\ Len(directory.entries) = LeValue(SubSeq(file, 1, 4))
        /\ \A k \in 1..Len(directory.entries) :
            LET entry == directory.entries[k]
                s == RawField(k, 6, 8)
            IN  /\ entry.number = RawField(k, 1, 2)
                /\ entry.offset = RawField(k, 3, 5)
                /\ entry.size = s % 4194304
                /\ entry.has_file_header <=> ((s \div 8388608) % 2 = 0)
                /\ entry.uses_file_header <=> ((s \div 4194304) % 2 = 0)

\* C4: read_entry that returns, returns exactly entry.size bytes, those of the
\* data file at [offset, offset + size); with fewer bytes available it fails.
EntryReadIsExact ==
    buf.state = "Ok" =>
        /\ Len(buf.bytes) = Entry.size
        /\ \A i \in 1..Entry.size : buf.bytes[i] = data[Entry.offset + i]

====
